---- MODULE Spec2Model ----
(***************************************************************************)
(* Qtends backend: products, carts, orders, categories.  The model follows *)
(* the order controller (createOrder, cancelMyOrder, updateOrderStatus and *)
(* the reads), the cart controller (getCart, addItem, updateItem,          *)
(* removeItem, clearCart), the product controller (createProduct,          *)
(* updateProduct, deleteProduct) and the category controller               *)
(* (createCategory, updateCategory, deleteCategory) over one shared        *)
(* document store.  The category handlers are taken as single steps.       *)
(*                                                                         *)
(* Store semantics (MongoDB / Mongoose, as the controllers use them):      *)
(*  - a read or write issued without a session acts on the committed       *)
(*    documents; every await is one step of a request;                     *)
(*  - a transaction takes its snapshot at its first operation, buffers its *)
(*    writes until commitTransaction, and gets a write conflict when it    *)
(*    writes a document that another transaction has written and not yet   *)
(*    committed, or that was changed after its snapshot;                   *)
(*  - a write issued without a session waits while a transaction holds the *)
(*    document;                                                            *)
(*  - document.save() writes only the modified paths; replacing an array   *)
(*    adds the loaded version (__v) to the filter and increments it, a     *)
(*    $push increments it, setting a field of an array element adds it to  *)
(*    the filter only.  A request that loaded a cart carries "stale" when  *)
(*    the stored version has moved past the loaded one.                    *)
(* Money is counted in thousandths of a currency unit (10000 = 10.00).     *)
(***************************************************************************)
EXTENDS Integers, Sequences, FiniteSets, TLC

VARIABLES products, carts, orders, req, tx, resp, categories

vars == <<products, carts, orders, req, tx, resp, categories>>

\* ---------------------------------------------------------------- bounds
MaxStock == 2
MaxQty == 2
MaxOrders == 2
NReq == 2
MaxLines == 2

ProductIds == {"p1", "p2", "p3"}
OnSale == {"p1", "p2"}
Shoppers == {"u1", "u2"}
CategoryIds == {"c1", "c2", "c3"}
Users == Shoppers \cup {"admin"}
Req == 1..NReq
Prices == {10000, 2500}
Titles == {"t1", "t2"}
Statuses == {"pending", "paid", "shipped", "delivered"}
PaymentStatuses == {"unpaid", "paid", "refunded"}

\* ------------------------------------------------------------- documents
NoProduct == [exists |-> FALSE, title |-> "", slug |-> "", price |-> 0,
              stock |-> 0, isActive |-> FALSE]
NoCart == [exists |-> FALSE, items |-> <<>>, dups |-> 0]
\* a category that is not in the collection; parent "" is null
NoCategory == [exists |-> FALSE, parent |-> "", isActive |-> FALSE]

NoResp == [status |-> 0, kind |-> "", ref |-> "", user |-> "", oid |-> 0]

Idle == [pc |-> "idle", user |-> "", cart |-> <<>>, stale |-> FALSE,
         lines |-> <<>>, i |-> 0, oid |-> 0, ostatus |-> "", opay |-> "",
         dstatus |-> "", dpay |-> "", prod |-> "", pstock |-> 0, qty |-> 0,
         idx |-> 0, ocancelled |-> FALSE, op |-> ""]

NoTx == [active |-> FALSE, snap |-> [p \in ProductIds |-> 0],
         dstock |-> [p \in ProductIds |-> 0], lockP |-> {}, dirtyP |-> {},
         lockDoc |-> FALSE, dirtyDoc |-> FALSE, newOrder |-> FALSE]

CheckoutPcs == {"co_populate", "co_dec", "co_create", "co_clear", "co_commit"}
CheckoutTxPcs == {"co_dec", "co_create", "co_clear", "co_commit"}
CancelTxPcs == {"cn_inc", "cn_save", "cn_commit"}
CartSavePcs == {"cart_save"}

\* a role check that every token passes
EveryoneAdmin(u) == "admin"

\* the role carried by the bearer token's payload
Role(u) == IF u = "admin" THEN "admin" ELSE "user"

\* a request with no bearer token, or one that does not verify
Anonymous == "anon"

\* requireAuth in front of a route: 401 without a valid token, else the route
Authenticated(u, route) ==
  IF u = Anonymous
  THEN /\ resp' = [status |-> 401, kind |-> "Unauthorized", ref |-> "",
                   user |-> u, oid |-> 0]
       /\ UNCHANGED <<products, carts, orders, req, tx, categories>>
  ELSE route

Slug(p) == p

\* the response a step sends: status, error or success kind, the product slug
\* the message names, and the identity the request came from
Reply(u, status, kind, ref) ==
  [status |-> status, kind |-> kind, ref |-> ref, user |-> u, oid |-> 0]

\* the response of a request that names an order
ReplyOrder(u, status, kind, o) ==
  [status |-> status, kind |-> kind, ref |-> "", user |-> u, oid |-> o]

RECURSIVE SumSeq(_)
SumSeq(s) == IF s = <<>> THEN 0 ELSE Head(s) + SumSeq(Tail(s))

\* quantity of product p over a sequence of lines (cart items or order items)
QtyOf(items, p) ==
  SumSeq([k \in 1..Len(items) |-> IF items[k].product = p THEN items[k].qty ELSE 0])

\* ---------------------------------------------------------- store helpers
ProductLocked(p) == \E r \in Req : p \in tx[r].lockP

CartLocked(u) ==
  \E r \in Req : req[r].pc \in CheckoutTxPcs /\ req[r].user = u /\ tx[r].lockDoc

OrderLocked(o) ==
  \E r \in Req : req[r].pc \in CancelTxPcs /\ req[r].oid = o /\ tx[r].lockDoc

ProductLockedByOther(r, p) == \E s \in Req \ {r} : p \in tx[s].lockP

CartLockedByOther(r, u) ==
  \E s \in Req \ {r} :
    req[s].pc \in CheckoutTxPcs /\ req[s].user = u /\ tx[s].lockDoc

OrderLockedByOther(r, o) ==
  \E s \in Req \ {r} :
    req[s].pc \in CancelTxPcs /\ req[s].oid = o /\ tx[s].lockDoc

\* the snapshot a transaction takes at its first operation; snap keeps the
\* snapshot's stock only of the products in dirtyP, the others are unchanged
BeginSnapshot(t) == [t EXCEPT !.active = TRUE]

\* the stock a transaction sees: its snapshot and its own writes
TxView(t, p) ==
  (IF p \in t.dirtyP THEN t.snap[p] ELSE products[p].stock) + t.dstock[p]

\* the products a request in a transaction has still to write
Pending(rq) ==
  LET ls == IF rq.pc = "co_dec" THEN rq.cart
            ELSE IF rq.pc = "cn_inc" THEN rq.lines ELSE <<>>
  IN {ls[k].product : k \in {j \in 1..Len(ls) : j >= rq.i}}

\* transactions other than r that hold a snapshot see products in S, the cart
\* of user u (u = "" for none) and order o (o = 0 for none) as changed since
TxAfterWrite(r, S, u, o) ==
  [s \in Req |->
     IF s = r \/ ~tx[s].active THEN (IF s = r THEN NoTx ELSE tx[s])
     ELSE [tx[s] EXCEPT
             !.dirtyP = @ \cup (S \cap Pending(req[s])),
             !.snap = [p \in ProductIds |->
                         IF p \in (S \cap Pending(req[s])) \ tx[s].dirtyP
                         THEN products[p].stock ELSE @[p]],
             !.dirtyDoc = @ \/ (req[s].pc \in CheckoutTxPcs /\ req[s].user = u)
                            \/ (req[s].pc \in CancelTxPcs /\ req[s].oid = o)]]

\* requests other than r that loaded user u's cart and have not yet taken a
\* transaction snapshot see its version as moved
ReqAfterCartVersion(r, u, mine) ==
  [s \in Req |->
     IF s = r THEN mine
     ELSE IF req[s].user = u /\ req[s].pc \in (CheckoutPcs \cup CartSavePcs)
             /\ ~tx[s].active
          THEN [req[s] EXCEPT !.stale = TRUE]
          ELSE req[s]]

Init ==
  /\ products = [p \in ProductIds |-> NoProduct]
  /\ carts = [u \in Users |-> NoCart]
  /\ orders = <<>>
  /\ req = [r \in Req |-> Idle]
  /\ tx = [r \in Req |-> NoTx]
  /\ resp = NoResp
  /\ categories = [c \in CategoryIds |-> NoCategory]

\* ------------------------------------------------------- product controller
\* POST /api/products: Product.create with stock = data.stock ?? 0
CreateProduct(u, p, title, price, stock) ==
  /\ UNCHANGED categories
  /\ UNCHANGED <<carts, orders, req, tx>>
  /\ IF Role(u) # "admin"
     THEN /\ resp' = Reply(u, 403, "AdminOnly", "")
          /\ UNCHANGED products
     ELSE /\ ~products[p].exists
          /\ products' = [products EXCEPT ![p] =
               [exists |-> TRUE, title |-> title, slug |-> Slug(p),
                price |-> price, stock |-> stock, isActive |-> TRUE]]
          /\ resp' = Reply(u, 201, "ProductCreated", Slug(p))

\* a save that also rewrites the title and price kept in the orders' lines
CascadeProductSave(O, p, doc) ==
  [o \in 1..Len(O) |->
     [O[o] EXCEPT !.items =
        [k \in 1..Len(O[o].items) |->
           IF O[o].items[k].product = p
           THEN [O[o].items[k] EXCEPT !.title = doc.title, !.price = doc.price]
           ELSE O[o].items[k]]]]

\* the order collection after a product document is saved: orders hold copies
\* of title, slug and price, so the save reaches none of them
OrdersAfterProductSave(O, p, doc) == O

\* PATCH /api/products/:slug with one field of the body set
UpdateProduct(u, p, field, value) ==
  /\ UNCHANGED categories
  /\ UNCHANGED <<carts, req>>
  /\ IF Role(u) # "admin"
     THEN /\ resp' = Reply(u, 403, "AdminOnly", "")
          /\ UNCHANGED <<products, orders, tx>>
     ELSE IF ~products[p].exists
     THEN /\ resp' = Reply(u, 404, "NotFound", "")
          /\ UNCHANGED <<products, orders, tx>>
     ELSE LET doc == [products[p] EXCEPT ![field] = value] IN
          /\ doc # products[p] => ~ProductLocked(p)
          /\ products' = [products EXCEPT ![p] = doc]
          /\ orders' = OrdersAfterProductSave(orders, p, doc)
          /\ tx' = IF doc # products[p] THEN TxAfterWrite(0, {p}, "", 0) ELSE tx
          /\ resp' = Reply(u, 200, "ProductUpdated", Slug(p))

\* DELETE /api/products/:slug: soft delete
DeleteProduct(u, p) ==
  /\ UNCHANGED categories
  /\ UNCHANGED <<carts, orders, req>>
  /\ IF Role(u) # "admin"
     THEN /\ resp' = Reply(u, 403, "AdminOnly", "")
          /\ UNCHANGED <<products, tx>>
     ELSE IF ~products[p].exists
     THEN /\ resp' = Reply(u, 404, "NotFound", "")
          /\ UNCHANGED <<products, tx>>
     ELSE /\ products[p].isActive => ~ProductLocked(p)
          /\ products' = [products EXCEPT ![p].isActive = FALSE]
          /\ tx' = IF products[p].isActive THEN TxAfterWrite(0, {p}, "", 0) ELSE tx
          /\ resp' = Reply(u, 200, "ProductDeleted", Slug(p))

\* ------------------------------------------------------ category controller
\* A category's slug stands for the document: uniqueSlug gives every category
\* a slug of its own, and the lookups are by slug.

\* parentSlug left out of the request body
Absent == "absent"

\* Category.findOne({ slug, isActive: true })
ActiveCategory(slug) ==
  slug \in CategoryIds /\ categories[slug].exists /\ categories[slug].isActive

\* POST /api/categories: requireAdmin, the parent lookup and Category.create;
\* c is the slug uniqueSlug hands out, one no category holds
CreateCategory(u, c, parentSlug) ==
  /\ UNCHANGED <<products, carts, orders, req, tx>>
  /\ ~categories[c].exists
  /\ IF Role(u) # "admin"
     THEN /\ resp' = Reply(u, 403, "AdminOnly", "")
          /\ UNCHANGED categories
     ELSE IF parentSlug \notin {Absent, ""} /\ ~ActiveCategory(parentSlug)
     THEN /\ resp' = Reply(u, 400, "ParentNotFound", "")
          /\ UNCHANGED categories
     ELSE /\ categories' = [categories EXCEPT ![c] =
               [exists |-> TRUE,
                parent |-> IF parentSlug = Absent THEN "" ELSE parentSlug,
                isActive |-> TRUE]]
          /\ resp' = Reply(u, 201, "CategoryCreated", c)

\* PATCH /api/categories/:slug: requireAdmin, Category.findOne, the move under
\* a parent or to the top level, isActive, and current.save()
UpdateCategory(u, slug, parentSlug, active) ==
  /\ UNCHANGED <<products, carts, orders, req, tx>>
  /\ IF Role(u) # "admin"
     THEN /\ resp' = Reply(u, 403, "AdminOnly", "")
          /\ UNCHANGED categories
     ELSE IF ~(slug \in CategoryIds /\ categories[slug].exists)
     THEN /\ resp' = Reply(u, 404, "NotFound", "")
          /\ UNCHANGED categories
     ELSE IF parentSlug \notin {Absent, ""} /\ ~ActiveCategory(parentSlug)
     THEN /\ resp' = Reply(u, 400, "ParentNotFound", "")
          /\ UNCHANGED categories
     ELSE IF parentSlug = slug
     THEN /\ resp' = Reply(u, 400, "OwnParent", "")
          /\ UNCHANGED categories
     ELSE /\ categories' = [categories EXCEPT
               ![slug].parent = IF parentSlug = Absent THEN @ ELSE parentSlug,
               ![slug].isActive = IF active = Absent THEN @ ELSE active = "true"]
          /\ resp' = Reply(u, 200, "CategoryUpdated", slug)

\* DELETE /api/categories/:slug: soft delete
DeleteCategory(u, slug) ==
  /\ UNCHANGED <<products, carts, orders, req, tx>>
  /\ IF Role(u) # "admin"
     THEN /\ resp' = Reply(u, 403, "AdminOnly", "")
          /\ UNCHANGED categories
     ELSE IF ~(slug \in CategoryIds /\ categories[slug].exists)
     THEN /\ resp' = Reply(u, 404, "NotFound", "")
          /\ UNCHANGED categories
     ELSE /\ categories' = [categories EXCEPT ![slug].isActive = FALSE]
          /\ resp' = Reply(u, 200, "CategoryDeleted", slug)

\* ---------------------------------------------------------- cart controller
IndexOfProduct(items, p) ==
  IF \E k \in 1..Len(items) : items[k].product = p
  THEN CHOOSE k \in 1..Len(items) :
         /\ items[k].product = p
         /\ \A j \in 1..(k - 1) : items[j].product # p
  ELSE 0

\* cart.items.filter(i => i.product differs from p)
RECURSIVE WithoutProduct(_, _)
WithoutProduct(items, p) ==
  IF items = <<>> THEN <<>>
  ELSE IF Head(items).product = p THEN WithoutProduct(Tail(items), p)
  ELSE <<Head(items)>> \o WithoutProduct(Tail(items), p)

\* qty: z.number().int().min(1).max(999)
QtyValid(q) == q >= 1 /\ q <= 999

\* a cart request taken up: its route and what it read so far
CartRequest(u, op, p, q) ==
  [Idle EXCEPT !.pc = "cart_find", !.user = u, !.op = op, !.prod = p,
               !.pstock = products[p].stock, !.qty = q]

\* a response that ends nothing in flight: no request was taken up
Refuse(rs) ==
  /\ resp' = rs
  /\ UNCHANGED <<products, carts, orders, req, tx>>

\* GET /api/cart
StartGetCart(r, u) ==
  /\ UNCHANGED categories
  /\ req[r].pc = "idle"
  /\ req' = [req EXCEPT ![r] = [Idle EXCEPT !.pc = "cart_find", !.user = u, !.op = "get"]]
  /\ resp' = NoResp
  /\ UNCHANGED <<products, carts, orders, tx>>

\* DELETE /api/cart
StartClearCart(r, u) ==
  /\ UNCHANGED categories
  /\ req[r].pc = "idle"
  /\ req' = [req EXCEPT ![r] = [Idle EXCEPT !.pc = "cart_find", !.user = u, !.op = "clear"]]
  /\ resp' = NoResp
  /\ UNCHANGED <<products, carts, orders, tx>>

\* a stock check that is never alarmed
StockUnchecked(q, stock) == FALSE

\* the first check of addItem on the product's stock
AddRefused(stock, q) == stock < 1

\* POST /api/cart/items, up to the product lookup and the out-of-stock check;
\* a body that fails the schema throws, and errorHandler answers 500
StartAddItem(r, u, p, q) ==
  /\ UNCHANGED categories
  /\ req[r].pc = "idle"
  /\ IF ~QtyValid(q) THEN Refuse(Reply(u, 500, "ValidationError", ""))
     ELSE IF ~(products[p].exists /\ products[p].isActive)
     THEN Refuse(Reply(u, 404, "ProductNotFound", ""))
     ELSE IF AddRefused(products[p].stock, q)
     THEN Refuse(Reply(u, 400, "OutOfStock", ""))
     ELSE /\ req' = [req EXCEPT ![r] = CartRequest(u, "add", p, q)]
          /\ resp' = NoResp
          /\ UNCHANGED <<products, carts, orders, tx>>

\* a quantity compared with the stock the request read
ExceedsStock(q, stock) == q > stock

\* PATCH /api/cart/items/:productSlug, up to the product lookup and the stock
\* check
StartUpdateItem(r, u, p, q) ==
  /\ UNCHANGED categories
  /\ req[r].pc = "idle"
  /\ IF ~QtyValid(q) THEN Refuse(Reply(u, 500, "ValidationError", ""))
     ELSE IF ~(products[p].exists /\ products[p].isActive)
     THEN Refuse(Reply(u, 404, "ProductNotFound", ""))
     ELSE IF ExceedsStock(q, products[p].stock)
     THEN Refuse(Reply(u, 400, "ExceedsStock", ""))
     ELSE /\ req' = [req EXCEPT ![r] = CartRequest(u, "update", p, q)]
          /\ resp' = NoResp
          /\ UNCHANGED <<products, carts, orders, tx>>

\* DELETE /api/cart/items/:productSlug, up to the product lookup
StartRemoveItem(r, u, p) ==
  /\ UNCHANGED categories
  /\ req[r].pc = "idle"
  /\ IF ~products[p].exists
     THEN Refuse(Reply(u, 404, "ProductNotFound", ""))
     ELSE /\ req' = [req EXCEPT ![r] = CartRequest(u, "remove", p, 0)]
          /\ resp' = NoResp
          /\ UNCHANGED <<products, carts, orders, tx>>

\* the request ends with response rs and no write
CartDone(r, rs) ==
  /\ req' = [req EXCEPT ![r] = Idle]
  /\ resp' = rs

\* what each route does with the cart it loaded, up to cart.save()
CartDecide(r, items) ==
  LET rq == req[r]
      idx == IndexOfProduct(items, rq.prod)
      toSave == [rq EXCEPT !.pc = "cart_save", !.cart = items, !.idx = idx,
                           !.stale = FALSE]
  IN IF rq.op = "get" THEN CartDone(r, Reply(rq.user, 200, "Cart", ""))
     ELSE IF rq.op = "clear"
     THEN /\ req' = [req EXCEPT ![r] = toSave]
          /\ resp' = NoResp
     ELSE IF rq.op = "add"
     THEN LET newQty == IF idx > 0 THEN items[idx].qty + rq.qty ELSE rq.qty IN
          IF ExceedsStock(newQty, rq.pstock)
          THEN CartDone(r, Reply(rq.user, 400, "ExceedsStock", ""))
          ELSE /\ req' = [req EXCEPT ![r] = [toSave EXCEPT !.qty = newQty]]
               /\ resp' = NoResp
     ELSE IF idx = 0 THEN CartDone(r, Reply(rq.user, 404, "ItemNotInCart", ""))
     ELSE /\ req' = [req EXCEPT ![r] = toSave]
          /\ resp' = NoResp

\* getOrCreateCart: Cart.findOne
CartFind(r) ==
  /\ UNCHANGED categories
  /\ req[r].pc = "cart_find"
  /\ UNCHANGED <<products, carts, orders, tx>>
  /\ IF carts[req[r].user].exists
     THEN CartDecide(r, carts[req[r].user].items)
     ELSE /\ req' = [req EXCEPT ![r].pc = "cart_create"]
          /\ resp' = NoResp

\* a cart collection with no index on user
NoIndex(c) == TRUE

\* the unique index on cart.user lets an insert through
UniqueUser(c) == ~c.exists

\* getOrCreateCart: Cart.create; a rejected insert throws
CartCreate(r) ==
  /\ UNCHANGED categories
  /\ req[r].pc = "cart_create"
  /\ UNCHANGED <<products, orders, tx>>
  /\ LET u == req[r].user IN
     IF ~UniqueUser(carts[u])
     THEN /\ CartDone(r, Reply(u, 500, "DuplicateKey", ""))
          /\ UNCHANGED carts
     ELSE /\ carts' = [carts EXCEPT ![u] =
                         IF @.exists THEN [@ EXCEPT !.dups = @ + 1]
                         ELSE [exists |-> TRUE, items |-> <<>>, dups |-> 0]]
          /\ CartDecide(r, <<>>)

\* the cart document is written: transactions that hold a snapshot see it as
\* changed, and with `moved` so do the requests that loaded an older version
CartWritten(r, u, items, moved, rs) ==
  /\ ~CartLocked(u)
  /\ carts' = [carts EXCEPT ![u].items = items]
  /\ req' = IF moved THEN ReqAfterCartVersion(r, u, Idle)
            ELSE [req EXCEPT ![r] = Idle]
  /\ tx' = TxAfterWrite(r, {}, u, 0)
  /\ resp' = rs

\* cart.save(): a $push of a new line, a $set of one line's qty, a $set of
\* the whole array, or updatedAt alone when the items did not change
CartSave(r) ==
  /\ UNCHANGED categories
  /\ req[r].pc = "cart_save"
  /\ UNCHANGED <<products, orders>>
  /\ LET rq == req[r]
         u == rq.user
         failed == /\ CartDone(r, Reply(u, 500, "VersionError", ""))
                   /\ UNCHANGED <<carts, tx>>
     IN IF rq.op = "add" /\ rq.idx = 0
        THEN /\ Len(carts[u].items) < MaxLines
             /\ CartWritten(r, u, Append(carts[u].items, [product |-> rq.prod, qty |-> rq.qty]),
                            TRUE, Reply(u, 201, "CartUpdated", ""))
        ELSE IF rq.op \in {"add", "update"}
        THEN IF rq.stale THEN failed
             ELSE CartWritten(r, u, [carts[u].items EXCEPT ![rq.idx].qty = rq.qty],
                              FALSE, Reply(u, IF rq.op = "add" THEN 201 ELSE 200,
                                           "CartUpdated", ""))
        ELSE IF rq.op = "clear" /\ rq.cart = <<>>
        THEN CartWritten(r, u, carts[u].items, FALSE, Reply(u, 200, "CartCleared", ""))
        ELSE IF rq.stale THEN failed
        ELSE CartWritten(r, u,
                         IF rq.op = "clear" THEN <<>> ELSE WithoutProduct(rq.cart, rq.prod),
                         TRUE,
                         Reply(u, 200, IF rq.op = "clear" THEN "CartCleared" ELSE "CartUpdated", ""))

\* --------------------------------------------------------- order controller
calcShipping(subtotal) == 0

calcTax(subtotal) == 0

\* a rounding to whole currency units
RoundWhole(x) == ((x + 500) \div 1000) * 1000

\* +x.toFixed(2), on thousandths
Round2(x) == ((x + 5) \div 10) * 10

\* the read-time checks of one populated cart line
ProductUnavailable(it) ==
  ~products[it.product].exists \/ ~products[it.product].isActive

\* a check that asks only for some stock to be left, as addItem's first check
OutOfStock(it) == products[it.product].stock < 1

InsufficientStock(it) == products[it.product].stock < it.qty

\* the first cart line that fails a read-time check, 0 when none does
FirstBad(items) ==
  IF \E k \in 1..Len(items) : ProductUnavailable(items[k]) \/ InsufficientStock(items[k])
  THEN CHOOSE k \in 1..Len(items) :
         /\ ProductUnavailable(items[k]) \/ InsufficientStock(items[k])
         /\ \A j \in 1..(k - 1) :
              ~(ProductUnavailable(items[j]) \/ InsufficientStock(items[j]))
  ELSE 0

\* itemsSnapshot
BuildSnapshot(items) ==
  [k \in 1..Len(items) |->
     LET p == products[items[k].product] IN
     [product |-> items[k].product, title |-> p.title, slug |-> p.slug,
      price |-> p.price, qty |-> items[k].qty,
      lineTotal |-> Round2(p.price * items[k].qty)]]

Subtotal(lines) == Round2(SumSeq([k \in 1..Len(lines) |-> lines[k].lineTotal]))

\* the document Order.create receives
NewOrder(u, lines) ==
  [user |-> u, items |-> lines, subtotal |-> Subtotal(lines),
   shippingFee |-> calcShipping(Subtotal(lines)), tax |-> calcTax(Subtotal(lines)),
   grandTotal |-> Round2(Subtotal(lines) + calcShipping(Subtotal(lines))
                          + calcTax(Subtotal(lines))),
   paymentMethod |-> "cod", paymentStatus |-> "unpaid", status |-> "pending",
   cancelled |-> FALSE, cancelledAt |-> "null"]

\* a decrement with no stock condition in its filter
StockFilterOff(stock, qty) == TRUE

\* a filter that asks only for some stock to be left
StockFilterPositive(stock, qty) == stock >= 1

\* the filter { stock: { $gte: qty } } of the conditional decrement
StockFilter(stock, qty) == stock >= qty

\* the same update issued without the session: it is committed at once
DirectInc(P, t, p, d) ==
  [products |-> [P EXCEPT ![p].stock = @ + d],
   tx |-> [t EXCEPT !.lockP = @ \cup {p}]]

\* Product.updateOne(..., { $inc: { stock: d } }, { session }): the write stays
\* in the transaction until it commits
SessionInc(P, t, p, d) ==
  [products |-> P,
   tx |-> [t EXCEPT !.dstock[p] = @ + d, !.lockP = @ \cup {p}]]

\* session.abortTransaction() and the error response
Abort(r, rs) ==
  /\ req' = [req EXCEPT ![r] = Idle]
  /\ tx' = [tx EXCEPT ![r] = NoTx]
  /\ resp' = rs
  /\ UNCHANGED <<products, carts, orders>>

InFlightCheckouts == Cardinality({r \in Req : req[r].pc \in CheckoutPcs})

\* !cart || cart.items.length === 0
CartIsEmpty(c) == ~c.exists \/ c.items = <<>>

\* POST /api/orders: Cart.findOne
StartCreateOrder(r, u) ==
  /\ UNCHANGED categories
  /\ req[r].pc = "idle"
  /\ Len(orders) + InFlightCheckouts < MaxOrders
  /\ UNCHANGED <<products, carts, orders, tx>>
  /\ IF CartIsEmpty(carts[u])
     THEN /\ resp' = Reply(u, 400, "EmptyCart", "")
          /\ UNCHANGED req
     ELSE /\ req' = [req EXCEPT ![r] = [Idle EXCEPT !.pc = "co_populate",
                       !.user = u, !.cart = carts[u].items]]
          /\ resp' = NoResp

\* populate('items.product'), the checks of every line and the snapshot
CoPopulate(r) ==
  /\ UNCHANGED categories
  /\ req[r].pc = "co_populate"
  /\ UNCHANGED <<products, carts, orders, tx>>
  /\ LET items == req[r].cart
         bad == FirstBad(items)
     IN IF bad # 0
        THEN /\ req' = [req EXCEPT ![r] = Idle]
             /\ resp' = IF ProductUnavailable(items[bad])
                        THEN Reply(req[r].user, 400, "ProductUnavailable", "")
                        ELSE Reply(req[r].user, 400, "InsufficientStock",
                                   products[items[bad].product].slug)
        ELSE /\ req' = [req EXCEPT ![r].pc = "co_dec", ![r].i = 1,
                                   ![r].lines = BuildSnapshot(items)]
             /\ resp' = NoResp

\* a decrement of one unit per line
DecOne(it) == 0 - 1

\* { $inc: { stock: -it.qty } }
DecAmount(it) == 0 - it.qty

\* an update whose modifiedCount is not looked at
UpdateNeverRejected(matched) == FALSE

\* if (resUpd.modifiedCount !== 1) throw
UpdateRejected(matched) == ~matched

\* one conditional decrement of the loop over cart.items
CoDecrement(r) ==
  /\ UNCHANGED categories
  /\ req[r].pc = "co_dec"
  /\ LET it == req[r].cart[req[r].i]
         t == BeginSnapshot(tx[r])
         matched == StockFilter(TxView(t, it.product), it.qty)
     IN IF matched /\ (it.product \in t.dirtyP \/ ProductLockedByOther(r, it.product))
        THEN Abort(r, Reply(req[r].user, 500, "WriteConflict", ""))
        ELSE IF UpdateRejected(matched)
        THEN Abort(r, Reply(req[r].user, 500, "StockConflict", req[r].lines[req[r].i].slug))
        ELSE LET w == IF matched
                      THEN SessionInc(products, t, it.product, DecAmount(it))
                      ELSE [products |-> products, tx |-> t] IN
             /\ products' = w.products
             /\ tx' = [tx EXCEPT ![r] = w.tx]
             /\ req' = [req EXCEPT
                  ![r].i = @ + 1,
                  ![r].pc = IF req[r].i = Len(req[r].cart) THEN "co_create" ELSE @]
             /\ resp' = NoResp
             /\ UNCHANGED <<carts, orders>>

\* Order.create([...], { session })
CoCreate(r) ==
  /\ UNCHANGED categories
  /\ req[r].pc = "co_create"
  /\ tx' = [tx EXCEPT ![r].newOrder = TRUE]
  /\ req' = [req EXCEPT ![r].pc = "co_clear"]
  /\ resp' = NoResp
  /\ UNCHANGED <<products, carts, orders>>

\* a save that does not look at the document's version
VersionIgnored(rq) == FALSE

\* the save's filter on the version the request loaded finds no document
VersionMoved(rq) == rq.stale

\* cart.items = []; cart.save({ session })
CoClear(r) ==
  /\ UNCHANGED categories
  /\ req[r].pc = "co_clear"
  /\ IF VersionMoved(req[r])
     THEN Abort(r, Reply(req[r].user, 500, "VersionError", ""))
     ELSE IF tx[r].dirtyDoc \/ CartLockedByOther(r, req[r].user)
     THEN Abort(r, Reply(req[r].user, 500, "WriteConflict", ""))
     ELSE /\ tx' = [tx EXCEPT ![r].lockDoc = TRUE]
          /\ req' = [req EXCEPT ![r].pc = "co_commit"]
          /\ resp' = NoResp
          /\ UNCHANGED <<products, carts, orders>>

\* the product collection once a transaction's stock writes are committed
CommitStock(P, t) ==
  [p \in ProductIds |-> [P[p] EXCEPT !.stock = @ + t.dstock[p]]]

\* session.commitTransaction() of createOrder and the 201 response
CoCommit(r) ==
  /\ UNCHANGED categories
  /\ req[r].pc = "co_commit"
  /\ products' = CommitStock(products, tx[r])
  /\ orders' = IF tx[r].newOrder
               THEN Append(orders, NewOrder(req[r].user, req[r].lines))
               ELSE orders
  /\ carts' = IF tx[r].lockDoc
              THEN [carts EXCEPT ![req[r].user].items = <<>>]
              ELSE carts
  /\ tx' = TxAfterWrite(r, tx[r].lockP, req[r].user, 0)
  /\ req' = ReqAfterCartVersion(r, req[r].user, Idle)
  /\ resp' = ReplyOrder(req[r].user, 201, "Created", Len(orders'))

\* an operation of the transaction throws (the store or the connection fails)
CoFail(r) ==
  /\ UNCHANGED categories
  /\ req[r].pc \in CheckoutTxPcs
  /\ Abort(r, Reply(req[r].user, 500, "CheckoutFailed", ""))

\* eligibility checks that leave out the cancelled mark
RefusalByStatusOnly(o) ==
  IF o.paymentStatus # "unpaid" \/ o.status # "pending" THEN "CancelNotAllowed"
  ELSE ""

\* the eligibility checks of cancelMyOrder on the loaded order: "" when the
\* cancellation may proceed, else the error
CancelRefusal(o) ==
  IF o.cancelled THEN "AlreadyCancelled"
  ELSE IF o.paymentStatus # "unpaid" \/ o.status # "pending" THEN "CancelNotAllowed"
  ELSE ""

\* an access check that lets every authenticated requester through
AnyRequester(u, o) == TRUE

\* isOwner || isAdmin
MayAccess(u, o) == o.user = u \/ Role(u) = "admin"

\* GET /api/orders/:id: Order.findById, the access check and the order sent
GetOrder(u, o) ==
  /\ UNCHANGED categories
  /\ UNCHANGED <<products, carts, orders, req, tx>>
  /\ resp' = IF o > Len(orders) THEN ReplyOrder(u, 404, "NotFound", o)
             ELSE IF ~MayAccess(u, orders[o]) THEN ReplyOrder(u, 403, "Forbidden", o)
             ELSE ReplyOrder(u, 200, "Order", o)

\* GET /api/orders: the caller's own orders
MyOrders(u) ==
  /\ UNCHANGED categories
  /\ UNCHANGED <<products, carts, orders, req, tx>>
  /\ resp' = Reply(u, 200, "MyOrders", "")

\* GET /api/orders/admin/all: requireAdmin, then every order
ListAllOrders(u) ==
  /\ UNCHANGED categories
  /\ UNCHANGED <<products, carts, orders, req, tx>>
  /\ resp' = IF Role(u) # "admin" THEN Reply(u, 403, "AdminOnly", "")
             ELSE Reply(u, 200, "AllOrders", "")

\* DELETE /api/orders/:id: Order.findById and the checks before the transaction
StartCancel(r, u, o) ==
  /\ UNCHANGED categories
  /\ req[r].pc = "idle"
  /\ UNCHANGED <<products, carts, orders, tx>>
  /\ IF o > Len(orders)
     THEN /\ resp' = ReplyOrder(u, 404, "NotFound", o)
          /\ UNCHANGED req
     ELSE IF ~MayAccess(u, orders[o])
     THEN /\ resp' = ReplyOrder(u, 403, "Forbidden", o)
          /\ UNCHANGED req
     ELSE IF CancelRefusal(orders[o]) # ""
     THEN /\ resp' = ReplyOrder(u, 400, CancelRefusal(orders[o]), o)
          /\ UNCHANGED req
     ELSE /\ req' = [req EXCEPT ![r] = [Idle EXCEPT !.pc = "cn_inc", !.user = u,
                       !.oid = o, !.lines = orders[o].items, !.i = 1]]
          /\ resp' = NoResp

\* one unit given back per line
RestoreOne(it) == 1

\* the quantity one line of the order gives back
RestoreQty(it) == it.qty

\* one unconditional increment of the loop over order.items
CnIncrement(r) ==
  /\ UNCHANGED categories
  /\ req[r].pc = "cn_inc"
  /\ LET it == req[r].lines[req[r].i]
         t == BeginSnapshot(tx[r])
     IN IF it.product \in t.dirtyP \/ ProductLockedByOther(r, it.product)
        THEN Abort(r, ReplyOrder(req[r].user, 500, "CancelFailed", req[r].oid))
        ELSE LET w == SessionInc(products, t, it.product, RestoreQty(it)) IN
             /\ products' = w.products
             /\ tx' = [tx EXCEPT ![r] = w.tx]
             /\ req' = [req EXCEPT
                  ![r].i = @ + 1,
                  ![r].pc = IF req[r].i = Len(req[r].lines) THEN "cn_save" ELSE @]
             /\ resp' = NoResp
             /\ UNCHANGED <<carts, orders>>

\* the cancel flag set without its date
MarkFlagOnly(o) == [o EXCEPT !.cancelled = TRUE]

\* a cancellation that also books a refund
MarkRefunded(o) ==
  [o EXCEPT !.cancelled = TRUE, !.cancelledAt = "date", !.paymentStatus = "refunded"]

\* the order document with the cancel markers set
MarkCancelled(o) == [o EXCEPT !.cancelled = TRUE, !.cancelledAt = "date"]

\* the same save issued without the session: it is committed at once
DirectSave(O, t, o) ==
  [orders |-> [O EXCEPT ![o] = MarkCancelled(@)],
   tx |-> [t EXCEPT !.lockDoc = TRUE]]

\* order.save({ session }): the write stays in the transaction until it commits
SessionSave(O, t, o) == [orders |-> O, tx |-> [t EXCEPT !.lockDoc = TRUE]]

\* order.cancelled = true; order.cancelledAt = new Date(); order.save({ session })
CnSave(r) ==
  /\ UNCHANGED categories
  /\ req[r].pc = "cn_save"
  /\ IF tx[r].dirtyDoc \/ OrderLockedByOther(r, req[r].oid)
     THEN Abort(r, ReplyOrder(req[r].user, 500, "CancelFailed", req[r].oid))
     ELSE LET w == SessionSave(orders, tx[r], req[r].oid) IN
          /\ orders' = w.orders
          /\ tx' = [tx EXCEPT ![r] = w.tx]
          /\ req' = [req EXCEPT ![r].pc = "cn_commit"]
          /\ resp' = NoResp
          /\ UNCHANGED <<products, carts>>

\* session.commitTransaction() of cancelMyOrder and the 200 response
CnCommit(r) ==
  /\ UNCHANGED categories
  /\ req[r].pc = "cn_commit"
  /\ products' = CommitStock(products, tx[r])
  /\ orders' = IF tx[r].lockDoc
               THEN [orders EXCEPT ![req[r].oid] = MarkCancelled(@)]
               ELSE orders
  /\ tx' = TxAfterWrite(r, tx[r].lockP, "", req[r].oid)
  /\ req' = [req EXCEPT ![r] = Idle]
  /\ resp' = ReplyOrder(req[r].user, 200, "Cancelled", req[r].oid)
  /\ UNCHANGED carts

CnFail(r) ==
  /\ UNCHANGED categories
  /\ req[r].pc \in CancelTxPcs
  /\ Abort(r, ReplyOrder(req[r].user, 500, "CancelFailed", req[r].oid))

\* PATCH /api/orders/:id/status: requireAdmin, then Order.findById
StartUpdateOrderStatus(r, u, o, ds, dp) ==
  /\ UNCHANGED categories
  /\ req[r].pc = "idle"
  /\ UNCHANGED <<products, carts, orders, tx>>
  /\ IF Role(u) # "admin"
     THEN /\ resp' = Reply(u, 403, "AdminOnly", "")
          /\ UNCHANGED req
     ELSE IF o > Len(orders)
     THEN /\ resp' = ReplyOrder(u, 404, "NotFound", o)
          /\ UNCHANGED req
     ELSE /\ req' = [req EXCEPT ![r] = [Idle EXCEPT !.pc = "us_save", !.user = u,
                       !.oid = o, !.ostatus = orders[o].status,
                       !.opay = orders[o].paymentStatus,
                       !.ocancelled = orders[o].cancelled,
                       !.dstatus = ds, !.dpay = dp]]
          /\ resp' = NoResp

\* a save that accepts a status only when it is not behind the stored one
SaveForwardOnly(o, rq) ==
  LET rank == [s \in {"pending", "paid", "shipped", "delivered"} |->
                 IF s = "pending" THEN 0 ELSE IF s = "paid" THEN 1
                 ELSE IF s = "shipped" THEN 2 ELSE 3]
  IN [o EXCEPT
        !.status = IF rq.dstatus # "" /\ rank[rq.dstatus] >= rank[@]
                   THEN rq.dstatus ELSE @,
        !.paymentStatus = IF rq.dpay # "" THEN rq.dpay ELSE @]

\* a save that writes the whole loaded document back
SaveLoadedDocument(o, rq) ==
  [o EXCEPT
     !.status = IF rq.dstatus # "" THEN rq.dstatus ELSE rq.ostatus,
     !.paymentStatus = IF rq.dpay # "" THEN rq.dpay ELSE rq.opay,
     !.cancelled = rq.ocancelled]

\* a save that moves the order one stage on, whatever was supplied
SaveNextStage(o, rq) ==
  [o EXCEPT
     !.status = IF rq.dstatus = "" \/ rq.dstatus = rq.ostatus THEN @
                ELSE IF @ = "pending" THEN "paid"
                ELSE IF @ = "paid" THEN "shipped" ELSE "delivered",
     !.paymentStatus = IF rq.dpay # "" /\ rq.dpay # rq.opay THEN rq.dpay ELSE @]

\* the order document after order.save() of updateOrderStatus: the paths the
\* request assigned a value other than the loaded one
SaveStatus(o, rq) ==
  [o EXCEPT
     !.status = IF rq.dstatus # "" /\ rq.dstatus # rq.ostatus THEN rq.dstatus ELSE @,
     !.paymentStatus = IF rq.dpay # "" /\ rq.dpay # rq.opay THEN rq.dpay ELSE @]

StatusModified(rq) ==
  \/ rq.dstatus # "" /\ rq.dstatus # rq.ostatus
  \/ rq.dpay # "" /\ rq.dpay # rq.opay

UsSave(r) ==
  /\ UNCHANGED categories
  /\ req[r].pc = "us_save"
  /\ StatusModified(req[r]) => ~OrderLocked(req[r].oid)
  /\ orders' = [orders EXCEPT ![req[r].oid] = SaveStatus(@, req[r])]
  /\ tx' = IF StatusModified(req[r]) THEN TxAfterWrite(r, {}, "", req[r].oid) ELSE tx
  /\ req' = [req EXCEPT ![r] = Idle]
  /\ resp' = ReplyOrder(req[r].user, 200, "StatusUpdated", req[r].oid)
  /\ UNCHANGED <<products, carts>>

\* ------------------------------------------------------------ specification
\* A shop the product and cart controllers have set up: p1 and p2 on sale with
\* MaxStock in stock, p3 not created yet, u1's cart with two lines, u2's with
\* one.  The two carts together ask for more of p1 than there is.
Line(p, q) == [product |-> p, qty |-> q]

ShopProducts ==
  [p \in ProductIds |->
     IF p \in OnSale
     THEN [exists |-> TRUE, title |-> "t1", slug |-> Slug(p), price |-> 10000,
           stock |-> MaxStock, isActive |-> TRUE]
     ELSE NoProduct]

ShopCarts ==
  [u \in Users |->
     IF u = "u1" THEN [NoCart EXCEPT !.exists = TRUE,
                                     !.items = <<Line("p2", MaxQty), Line("p1", 1)>>]
     ELSE IF u = "u2" THEN [NoCart EXCEPT !.exists = TRUE,
                                          !.items = <<Line("p1", MaxQty)>>]
     ELSE NoCart]

InitShop ==
  /\ products = ShopProducts
  /\ carts = ShopCarts
  /\ orders = <<>>
  /\ req = [r \in Req |-> Idle]
  /\ tx = [r \in Req |-> NoTx]
  /\ resp = NoResp
  /\ categories = [c \in CategoryIds |-> NoCategory]

\* the requests of each route, from the request slots R
CheckoutOf(R, U) ==
  \/ \E r \in R, u \in U : StartCreateOrder(r, u)
  \/ \E r \in R : CoPopulate(r)
  \/ \E r \in R : CoDecrement(r)
  \/ \E r \in R : CoCreate(r)
  \/ \E r \in R : CoClear(r)
  \/ \E r \in R : CoCommit(r)
  \/ \E r \in R : CoFail(r)

CancellationOf(R, U) ==
  \/ \E r \in R, u \in U, o \in 1..MaxOrders : StartCancel(r, u, o)
  \/ \E r \in R : CnIncrement(r)
  \/ \E r \in R : CnSave(r)
  \/ \E r \in R : CnCommit(r)
  \/ \E r \in R : CnFail(r)

StatusUpdatesOf(R, DS, DP) ==
  \/ \E r \in R, o \in 1..MaxOrders : \E ds \in DS, dp \in DP :
       StartUpdateOrderStatus(r, "admin", o, ds, dp)
  \/ \E r \in R : UsSave(r)

StockEdits(P) ==
  \E p \in P : \E n \in 0..MaxStock : UpdateProduct("admin", p, "stock", n)

ActiveEdits(P) ==
  \E p \in P : \E b \in BOOLEAN : UpdateProduct("admin", p, "isActive", b)

PriceEdits(P) == \E p \in P : \E c \in Prices : UpdateProduct("admin", p, "price", c)

TitleEdits(P) == \E p \in P : \E t \in Titles : UpdateProduct("admin", p, "title", t)

Deletions(P) == \E p \in P : DeleteProduct("admin", p)

Creations(P) ==
  \E p \in P : \E n \in 0..MaxStock : CreateProduct("admin", p, "t1", 10000, n)

\* checkout and cancellation against admin stock and availability edits
Next ==
  \/ CheckoutOf(Req, Users)
  \/ CancellationOf(Req, Users)
  \/ StockEdits(OnSale)
  \/ ActiveEdits(OnSale)

Spec == InitShop /\ [][Next]_vars

\* checkouts racing for the stock, with no cancellation and no restock
NextRace == CheckoutOf(Req, Shoppers)

SpecRace == InitShop /\ [][NextRace]_vars

\* every route that writes a stock count
NextStock ==
  \/ CheckoutOf(Req, Shoppers)
  \/ CancellationOf(Req, Shoppers)
  \/ StockEdits(ProductIds)
  \/ Creations(ProductIds)

SpecStock == InitShop /\ [][NextStock]_vars

\* orders moved through their statuses while they are created and cancelled
StatusInputs == {"", "shipped"}
PaymentInputs == {"", "paid"}

NextStatus ==
  \/ CheckoutOf(Req, Shoppers)
  \/ CancellationOf(Req, Users)
  \/ StatusUpdatesOf(Req, StatusInputs, PaymentInputs)

SpecStatus == InitShop /\ [][NextStatus]_vars

\* orders moved forward and back through their statuses while they are created
\* and cancelled
StatusMoves == {"", "pending", "shipped"}

NextLifecycle ==
  \/ CheckoutOf(Req, Shoppers)
  \/ CancellationOf(Req, Users)
  \/ StatusUpdatesOf(Req, StatusMoves, PaymentInputs)

SpecLifecycle == InitShop /\ [][NextLifecycle]_vars

\* one request at a time, with every edit an admin can make to a product
NextCatalog ==
  \/ CheckoutOf({1}, Shoppers)
  \/ CancellationOf({1}, Shoppers)
  \/ StatusUpdatesOf({1}, {"shipped"}, PaymentInputs)
  \/ PriceEdits({"p1"})
  \/ TitleEdits({"p1"})
  \/ StockEdits({"p2"})
  \/ Deletions({"p2"})

SpecCatalog == InitShop /\ [][NextCatalog]_vars

ReadsOf(U) == \E u \in U, o \in 1..MaxOrders : GetOrder(u, o)

\* orders read and cancelled by their owner, by the other shopper and by the
\* admin
\* a stocked shop in which nobody has a cart yet
InitCatalog ==
  /\ products = ShopProducts
  /\ carts = [u \in Users |-> NoCart]
  /\ orders = <<>>
  /\ req = [r \in Req |-> Idle]
  /\ tx = [r \in Req |-> NoTx]
  /\ resp = NoResp
  /\ categories = [c \in CategoryIds |-> NoCategory]

QtyInputs == 0..MaxQty

\* the cart routes, all behind requireAuth
CartRoutes(R, U, P) ==
  \/ \E r \in R, u \in U : StartGetCart(r, u)
  \/ \E r \in R, u \in U : StartClearCart(r, u)
  \/ \E r \in R, u \in U, p \in P, q \in QtyInputs : StartAddItem(r, u, p, q)
  \/ \E r \in R, u \in U, p \in P, q \in QtyInputs : StartUpdateItem(r, u, p, q)
  \/ \E r \in R, u \in U, p \in P : StartRemoveItem(r, u, p)
  \/ \E r \in R : CartFind(r)
  \/ \E r \in R : CartCreate(r)
  \/ \E r \in R : CartSave(r)

\* one shopper's cart requests, two at a time
NextCart == CartRoutes(Req, {"u1"}, ProductIds)

SpecCart == InitCatalog /\ [][NextCart]_vars

\* two cart requests at a time for one product on sale and one that does not
\* exist, while the admin changes the stock and withdraws or restores the product
NextCartStock ==
  \/ CartRoutes(Req, {"u1"}, {"p1", "p3"})
  \/ StockEdits({"p1"})
  \/ ActiveEdits({"p1"})

SpecCartStock == InitCatalog /\ [][NextCartStock]_vars

\* one shopper fills and changes the cart while checking it out
NextCartCheckout ==
  \/ CartRoutes(Req, {"u1"}, {"p1"})
  \/ CheckoutOf(Req, {"u1"})

SpecCartCheckout == InitCatalog /\ [][NextCartCheckout]_vars

\* the slugs a request may name: the categories and one that no category has
SlugInputs == CategoryIds \cup {"none"}

\* the category routes, called by an admin and by a shopper
NextCategories ==
  \/ \E u \in {"admin", "u1"}, c \in CategoryIds, ps \in SlugInputs \cup {Absent, ""} :
       CreateCategory(u, c, ps)
  \/ \E u \in {"admin", "u1"}, s \in SlugInputs, ps \in SlugInputs \cup {Absent, ""},
        a \in {"true", "false", Absent} :
       UpdateCategory(u, s, ps, a)
  \/ \E u \in {"admin", "u1"}, s \in SlugInputs : DeleteCategory(u, s)

SpecCategories == InitShop /\ [][NextCategories]_vars

NextAccess ==
  \/ CheckoutOf(Req, Shoppers)
  \/ CancellationOf(Req, Users)
  \/ ReadsOf(Users)

SpecAccess == InitShop /\ [][NextAccess]_vars

\* the order routes as the router mounts them, called with and without a
\* token and with either role
Callers == Users \cup {Anonymous}

OrderRoutes(R, U) ==
  \/ \E r \in R, u \in U : Authenticated(u, StartCreateOrder(r, u))
  \/ \E u \in U : Authenticated(u, MyOrders(u))
  \/ \E u \in U, o \in 1..MaxOrders : Authenticated(u, GetOrder(u, o))
  \/ \E r \in R, u \in U, o \in 1..MaxOrders : Authenticated(u, StartCancel(r, u, o))
  \/ \E u \in U : Authenticated(u, ListAllOrders(u))
  \/ \E r \in R, u \in U, o \in 1..MaxOrders :
       Authenticated(u, StartUpdateOrderStatus(r, u, o, "shipped", "paid"))
  \/ \E r \in R : CoPopulate(r)
  \/ \E r \in R : CoDecrement(r)
  \/ \E r \in R : CoCreate(r)
  \/ \E r \in R : CoClear(r)
  \/ \E r \in R : CoCommit(r)
  \/ \E r \in R : CnIncrement(r)
  \/ \E r \in R : CnSave(r)
  \/ \E r \in R : CnCommit(r)
  \/ \E r \in R : UsSave(r)

NextRoutes == OrderRoutes(Req, Callers)

SpecRoutes == InitShop /\ [][NextRoutes]_vars

\* ------------------------------------------------------------- properties
\* request r takes the step: its position or its loop index moves
Acts(r) == req'[r].pc # req[r].pc \/ req'[r].i # req[r].i

\* the committed documents are the same after the step
CommittedSame == products' = products /\ orders' = orders /\ carts' = carts

\* the stock of every product goes down by what r's cart asks of it
StockDecremented(r) ==
  \A p \in ProductIds :
    products'[p] = [products[p] EXCEPT !.stock = @ - QtyOf(req[r].cart, p)]

\* one order of r's user is added, with one line per cart line
OrderPersisted(r) ==
  /\ Len(orders') = Len(orders) + 1
  /\ SubSeq(orders', 1, Len(orders)) = orders
  /\ LET o == orders'[Len(orders')] IN
     /\ o.user = req[r].user
     /\ Len(o.items) = Len(req[r].cart)
     /\ \A k \in 1..Len(o.items) :
          /\ o.items[k].product = req[r].cart[k].product
          /\ o.items[k].qty = req[r].cart[k].qty

CartEmptied(r) == carts' = [carts EXCEPT ![req[r].user].items = <<>>]

\* C1 - checkout atomicity: every step of a createOrder transaction, whether
\* it goes on, fails or commits, leaves the committed stock, orders and carts
\* as they were, except the step that answers 201, which decrements the stock
\* of every line, persists the order and empties the cart together; a failure
\* after some decrements therefore leaves every stock at its value before the
\* attempt and no order
CheckoutAtomic ==
  [][\A r \in Req :
       req[r].pc \in CheckoutTxPcs /\ Acts(r) =>
         IF resp'.status = 201
         THEN StockDecremented(r) /\ OrderPersisted(r) /\ CartEmptied(r)
         ELSE CommittedSame /\ (resp'.status = 500 => req'[r].pc = "idle")]_vars

\* u1's checkout has decremented p2 in its transaction and failed on p1: the
\* stock of p2 is what it was and u1 has no order
FailedAfterPartialDecrement ==
  /\ resp.status = 500 /\ resp.kind = "StockConflict"
  /\ resp.user = "u1" /\ resp.ref = Slug("p1")
  /\ products["p2"].stock = MaxStock
  /\ \A o \in 1..Len(orders) : orders[o].user # "u1"

\* units of product p in the orders
Sold(p) == SumSeq([o \in 1..Len(orders) |-> QtyOf(orders[o].items, p)])

\* the orders never hold more of a product than the shop had, and the stock is
\* what the orders have left
NoOverdraft ==
  \A p \in OnSale : Sold(p) <= MaxStock /\ products[p].stock = MaxStock - Sold(p)

\* request r is about to read or to decrement a line whose product has less
\* committed stock than the line asks
ShortBuyer(r) ==
  \/ /\ req[r].pc = "co_populate"
     /\ \E k \in 1..Len(req[r].cart) :
          products[req[r].cart[k].product].stock < req[r].cart[k].qty
  \/ /\ req[r].pc = "co_dec"
     /\ products[req[r].cart[req[r].i].product].stock < req[r].cart[req[r].i].qty

\* r's step ends the request with one of the outcomes in K and no order
EndsWith(r, K) ==
  /\ req'[r].pc = "idle"
  /\ <<resp'.status, resp'.kind>> \in K
  /\ resp'.user = req[r].user
  /\ CommittedSame

\* C2 - no oversell: with checkouts only, the orders never hold more of a
\* product than its stock N; a buyer who reaches a line with too little stock
\* left ends with InsufficientStock (400), StockConflict (500) or the store's
\* write conflict (500, the transaction's snapshot is older than the sale that
\* took the stock), and no order
NoOversell ==
  [][/\ NoOverdraft'
     /\ \A r \in Req :
          ShortBuyer(r) /\ Acts(r) /\ resp'.kind # "CheckoutFailed" =>
            EndsWith(r, {<<400, "InsufficientStock">>, <<500, "StockConflict">>,
                         <<500, "WriteConflict">>})]_vars

\* C2 as stated: the buyer ends with InsufficientStock or StockConflict only
NoOversellAsStated ==
  [][/\ NoOverdraft'
     /\ \A r \in Req :
          ShortBuyer(r) /\ Acts(r) /\ resp'.kind # "CheckoutFailed" =>
            EndsWith(r, {<<400, "InsufficientStock">>, <<500, "StockConflict">>})]_vars

\* u2 has bought the last units of p1 and u1, whose transaction began before
\* that sale, has been refused with a write conflict
LoserGotWriteConflict ==
  /\ resp.status = 500 /\ resp.kind = "WriteConflict" /\ resp.user = "u1"
  /\ products["p1"].stock = 0 /\ products["p2"].stock = MaxStock
  /\ Len(orders) = 1 /\ orders[1].user = "u2"

\* C3 - stock is never negative: in every committed state reached by
\* createOrder, cancelMyOrder and the admin's product creations and stock
\* updates, every product's stock is at least 0
StockNeverNegative == \A p \in ProductIds : products[p].stock >= 0

\* a product is sold out and a checkout that asked for more was refused at its
\* conditional decrement
SoldOutAndRefused ==
  /\ resp.kind = "StockConflict"
  /\ \E p \in ProductIds :
       products[p].exists /\ resp.ref = products[p].slug /\ products[p].stock = 0

\* the stock of some product differs after the step
StockMoved == \E p \in ProductIds : products'[p].stock # products[p].stock

\* the stock of every product goes up by what r's order lines hold of it
StockRestored(r) ==
  \A p \in ProductIds :
    products'[p] = [products[p] EXCEPT !.stock = @ + QtyOf(orders[req[r].oid].items, p)]

\* C4 - isolation: the committed documents, which are all that another request
\* reads, never show part of a transaction: in a step of a checkout the stock
\* moves exactly when the order appears and exactly when the cart is cleared,
\* and then for every line; in a step of a cancellation the stock moves only
\* with the order marked cancelled, and the order gets its mark only with the
\* stock of every line restored
Isolation ==
  [][\A r \in Req :
       /\ req[r].pc \in CheckoutTxPcs /\ Acts(r) =>
            /\ StockMoved <=> Len(orders') # Len(orders)
            /\ Len(orders') # Len(orders) <=> carts' # carts
            /\ StockMoved => StockDecremented(r) /\ OrderPersisted(r) /\ CartEmptied(r)
       /\ req[r].pc \in CancelTxPcs /\ Acts(r) =>
            /\ carts' = carts /\ Len(orders') = Len(orders)
            /\ StockMoved => orders'[req[r].oid].cancelled
            /\ orders' # orders =>
                 /\ StockRestored(r)
                 /\ orders' = [orders EXCEPT ![req[r].oid].cancelled = TRUE,
                                             ![req[r].oid].cancelledAt = "date"]]_vars

\* a cancellation holds its stock increments and its cancel mark in its
\* transaction while a checkout reads: the order is still open and the stock
\* is still what the sale left
CancelInFlightUnseen ==
  \E r, s \in Req :
    /\ req[r].pc = "cn_commit" /\ tx[r].lockDoc
    /\ ~orders[req[r].oid].cancelled
    /\ \A p \in OnSale : products[p].stock = MaxStock - Sold(p)
    /\ req[s].pc = "co_populate"

\* the line r is about to decrement
CurrentLine(r) == req[r].cart[req[r].i]

LineUnavailable(it) ==
  ~products[it.product].exists \/ ~products[it.product].isActive

LineShort(it) == products[it.product].stock < it.qty

FailingLines(items) ==
  {k \in 1..Len(items) : LineUnavailable(items[k]) \/ LineShort(items[k])}

\* the step changes no document and opens no transaction
NoSideEffect == CommittedSame /\ tx' = tx

\* C6 - read-time validation: createOrder answers EmptyCart exactly when the
\* user has no cart or an empty one; with a loaded cart it answers, for the
\* first line that fails, ProductUnavailable when the product is missing or
\* inactive and else InsufficientStock when the quantity exceeds the stock,
\* and goes on to its transaction only when no line fails; each of these
\* answers is a 400 and the step changes no stock, order or cart and opens no
\* transaction
ReadTimeValidation ==
  [][/\ \A r \in Req :
          req[r].pc = "idle" /\ req'[r].pc = "co_populate" =>
            /\ carts[req'[r].user].exists /\ carts[req'[r].user].items # <<>>
            /\ NoSideEffect
     /\ resp'.kind = "EmptyCart" =>
          /\ resp'.status = 400
          /\ ~carts[resp'.user].exists \/ carts[resp'.user].items = <<>>
          /\ NoSideEffect /\ req' = req
     /\ \A r \in Req :
          req[r].pc = "co_populate" /\ Acts(r) =>
            /\ NoSideEffect
            /\ IF FailingLines(req[r].cart) = {}
               THEN req'[r].pc = "co_dec" /\ resp'.status = 0
               ELSE LET k == CHOOSE j \in FailingLines(req[r].cart) :
                                \A m \in FailingLines(req[r].cart) : j <= m
                    IN /\ req'[r].pc = "idle"
                       /\ resp'.status = 400 /\ resp'.user = req[r].user
                       /\ resp'.kind = IF LineUnavailable(req[r].cart[k])
                                       THEN "ProductUnavailable"
                                       ELSE "InsufficientStock"]_vars

\* u2 asked for more of p1 than the one unit left and got InsufficientStock;
\* the cart, the stock and the orders are untouched
RefusedAtReadTime ==
  /\ resp.status = 400 /\ resp.kind = "InsufficientStock"
  /\ resp.user = "u2" /\ resp.ref = Slug("p1")
  /\ products["p1"].stock = 1
  /\ carts["u2"].items = ShopCarts["u2"].items
  /\ \A o \in 1..Len(orders) : orders[o].user # "u2"

\* C7 - post-condition of a successful checkout: the step that answers 201 is
\* a step of a createOrder request, it reduces the stock of every product by
\* the cart's quantity of it, leaves the user's cart empty and adds exactly
\* one order, of that user, pending, unpaid, not cancelled, with one line per
\* cart line carrying the cart's quantity
CheckoutPostcondition ==
  [][resp'.status = 201 =>
       \E r \in Req :
         /\ req[r].pc \in CheckoutPcs /\ Acts(r)
         /\ resp'.user = req[r].user /\ resp'.oid = Len(orders')
         /\ StockDecremented(r)
         /\ carts'[req[r].user].items = <<>>
         /\ OrderPersisted(r)
         /\ LET o == orders'[Len(orders')] IN
            o.status = "pending" /\ o.paymentStatus = "unpaid" /\ o.cancelled = FALSE]_vars

\* u2's checkout of MaxQty units of p1 has just been answered 201
CheckedOut ==
  /\ resp.status = 201 /\ resp.user = "u2"
  /\ products["p1"].stock = MaxStock - MaxQty
  /\ carts["u2"].items = <<>>
  /\ orders[resp.oid].user = "u2" /\ orders[resp.oid].items[1].qty = MaxQty

\* C8 - order snapshot immutability: no step changes the line items or the
\* subtotal, shippingFee, tax and grandTotal of an order that exists, whatever
\* product edits, deactivations, status updates, cancellations and checkouts
\* are made
SnapshotImmutable ==
  [][/\ Len(orders') >= Len(orders)
     /\ \A o \in 1..Len(orders) :
          /\ orders'[o].items = orders[o].items
          /\ orders'[o].subtotal = orders[o].subtotal
          /\ orders'[o].shippingFee = orders[o].shippingFee
          /\ orders'[o].tax = orders[o].tax
          /\ orders'[o].grandTotal = orders[o].grandTotal]_vars

\* an order line still carries the title and price its product had when the
\* order was made, after the admin changed both
SnapshotOutlivesEdit ==
  \E o \in 1..Len(orders) : \E k \in 1..Len(orders[o].items) :
    LET it == orders[o].items[k] IN
    /\ products[it.product].price # it.price
    /\ products[it.product].title # it.title
    /\ it.lineTotal = it.price * it.qty

\* C9 - cancellation symmetry: the step that answers a cancelMyOrder request
\* with 200 raises the stock of every product by the quantity the order's
\* lines record for it, whatever the stock was, and changes nothing else of
\* any product
CancelSymmetry ==
  [][\A r \in Req :
       req[r].pc \in CancelTxPcs /\ Acts(r) /\ resp'.status = 200 =>
         StockRestored(r)]_vars

\* a cancellation has put back its units on top of a stock the admin had
\* already refilled
RestoredAboveRefill ==
  /\ resp.status = 200 /\ resp.kind = "Cancelled"
  /\ \E k \in 1..Len(orders[resp.oid].items) :
       products[orders[resp.oid].items[k].product].stock
         = MaxStock + orders[resp.oid].items[k].qty

\* requester u may act on order o
Allowed(u, o) == orders[o].user = u \/ u = "admin"

\* C10 - cancellation eligibility: for the owner and for an admin alike,
\* cancelMyOrder answers AlreadyCancelled only on a cancelled order and
\* CancelNotAllowed only on an order that is not cancelled and is not pending
\* or not unpaid, both with 400 and with no document changed; it goes on to
\* its transaction only on an order that is not cancelled, pending and unpaid;
\* the other answers are for a missing order or a requester who is neither
\* owner nor admin; and an order once marked cancelled stays so, so that a
\* cancel issued after a successful one gets AlreadyCancelled
CancelEligibility ==
  [][/\ \A r \in Req :
          req[r].pc = "idle" /\ req'[r].pc = "cn_inc" =>
            /\ req'[r].oid \in 1..Len(orders)
            /\ Allowed(req'[r].user, req'[r].oid)
            /\ ~orders[req'[r].oid].cancelled
            /\ orders[req'[r].oid].status = "pending"
            /\ orders[req'[r].oid].paymentStatus = "unpaid"
            /\ NoSideEffect
     /\ resp'.kind = "AlreadyCancelled" =>
          /\ resp'.status = 400 /\ resp'.oid \in 1..Len(orders)
          /\ Allowed(resp'.user, resp'.oid)
          /\ orders[resp'.oid].cancelled
          /\ NoSideEffect /\ req' = req
     /\ resp'.kind = "CancelNotAllowed" =>
          /\ resp'.status = 400 /\ resp'.oid \in 1..Len(orders)
          /\ Allowed(resp'.user, resp'.oid)
          /\ ~orders[resp'.oid].cancelled
          /\ orders[resp'.oid].status # "pending" \/ orders[resp'.oid].paymentStatus # "unpaid"
          /\ NoSideEffect /\ req' = req
     /\ resp'.kind = "Forbidden" =>
          resp'.oid \in 1..Len(orders) /\ ~Allowed(resp'.user, resp'.oid)
     /\ resp'.kind = "NotFound" => resp'.oid \notin 1..Len(orders)
     /\ \A o \in 1..Len(orders) : orders[o].cancelled => orders'[o].cancelled]_vars

\* the admin's cancel of an order that was cancelled before is refused
AdminToldAlreadyCancelled ==
  /\ resp.status = 400 /\ resp.kind = "AlreadyCancelled" /\ resp.user = "admin"
  /\ orders[resp.oid].cancelled /\ orders[resp.oid].user # "admin"
\* C11 - cancellation atomicity: every step of a cancelMyOrder transaction
\* leaves the committed stock, orders and carts as they were, except the step
\* that answers 200, which raises the stock by every line's quantity and sets
\* cancelled and cancelledAt on the order together; a step that ends the
\* request otherwise answers 500 CancelFailed and has changed nothing
CancelAtomic ==
  [][\A r \in Req :
       req[r].pc \in CancelTxPcs /\ Acts(r) =>
         IF resp'.status = 200
         THEN /\ StockRestored(r)
              /\ orders' = [orders EXCEPT ![req[r].oid].cancelled = TRUE,
                                          ![req[r].oid].cancelledAt = "date"]
              /\ carts' = carts
         ELSE /\ CommittedSame
              /\ req'[r].pc = "idle" =>
                   resp' = [status |-> 500, kind |-> "CancelFailed", ref |-> "",
                            user |-> req[r].user, oid |-> req[r].oid]]_vars

\* the cancel of u1's two-line order has failed: the order is not cancelled
\* and the stock of both products is still what the sales left
CancelFailedClean ==
  /\ resp.status = 500 /\ resp.kind = "CancelFailed"
  /\ orders[resp.oid].user = "u1" /\ Len(orders[resp.oid].items) = 2
  /\ ~orders[resp.oid].cancelled /\ orders[resp.oid].cancelledAt = "null"
  /\ \A p \in OnSale : products[p].stock = MaxStock - Sold(p)
\* C12 - ownership-or-admin authorization: getOrder and cancelMyOrder answer
\* 404 NotFound only for an order that does not exist and 403 Forbidden only
\* to a requester who is neither the owner nor an admin, and neither answer
\* changes any document; getOrder sends an order, and cancelMyOrder goes on to
\* its transaction, only for the owner or an admin
Authorization ==
  [][/\ resp'.kind = "NotFound" =>
          /\ resp'.status = 404 /\ resp'.oid \notin 1..Len(orders)
          /\ NoSideEffect /\ req' = req
     /\ resp'.kind = "Forbidden" =>
          /\ resp'.status = 403 /\ resp'.oid \in 1..Len(orders)
          /\ ~Allowed(resp'.user, resp'.oid)
          /\ NoSideEffect /\ req' = req
     /\ resp'.kind = "Order" =>
          /\ resp'.status = 200 /\ resp'.oid \in 1..Len(orders)
          /\ Allowed(resp'.user, resp'.oid)
          /\ NoSideEffect /\ req' = req
     /\ \A r \in Req :
          req[r].pc = "idle" /\ req'[r].pc = "cn_inc" =>
            req'[r].oid \in 1..Len(orders) /\ Allowed(req'[r].user, req'[r].oid)]_vars

\* u1 asked for u2's order and was refused; the order is untouched
StrangerRefused ==
  /\ resp.status = 403 /\ resp.kind = "Forbidden" /\ resp.user = "u1"
  /\ orders[resp.oid].user = "u2" /\ ~orders[resp.oid].cancelled
\* the order documents differ at most in status and paymentStatus of order o
OnlyStatusOf(o) ==
  orders' = [orders EXCEPT ![o].status = orders'[o].status,
                           ![o].paymentStatus = orders'[o].paymentStatus]

\* the save of request r leaves `field` of its order at `supplied` when the
\* request supplied a value other than the one it loaded, and as it is stored
\* otherwise
SetsWhenChanged(r, field, supplied, loaded) ==
  orders'[req[r].oid][field] =
    IF supplied # "" /\ supplied # loaded THEN supplied ELSE orders[req[r].oid][field]

\* C13 - updateOrderStatus is unconditional: an admin's request is taken up
\* for every existing order whatever its status, paymentStatus and cancelled
\* flag, its save answers 200 and changes nothing but status and
\* paymentStatus of that order; a supplied value that differs from the value
\* the request loaded is stored (backward moves included), a field that is not
\* supplied, or whose supplied value is the one the request loaded, is not
\* written and keeps the value stored at the time of the save
StatusUpdateUnconditional ==
  [][/\ \A r \in Req :
          req[r].pc = "us_save" /\ Acts(r) =>
            /\ resp' = [status |-> 200, kind |-> "StatusUpdated", ref |-> "",
                        user |-> req[r].user, oid |-> req[r].oid]
            /\ SetsWhenChanged(r, "status", req[r].dstatus, req[r].ostatus)
            /\ SetsWhenChanged(r, "paymentStatus", req[r].dpay, req[r].opay)
            /\ OnlyStatusOf(req[r].oid)
            /\ products' = products /\ carts' = carts
     /\ \A r \in Req :
          req[r].pc = "idle" /\ req'[r].pc = "us_save" =>
            /\ req'[r].user = "admin" /\ req'[r].oid \in 1..Len(orders)
            /\ req'[r].ostatus = orders[req'[r].oid].status
            /\ req'[r].opay = orders[req'[r].oid].paymentStatus
            /\ NoSideEffect
     /\ resp'.kind = "NotFound" => resp'.oid \notin 1..Len(orders)]_vars

\* C13 as stated: after the save every supplied field holds the supplied value
StatusUpdateAsStated ==
  [][\A r \in Req :
       req[r].pc = "us_save" /\ Acts(r) =>
         /\ resp'.status = 200
         /\ req[r].dstatus # "" => orders'[req[r].oid].status = req[r].dstatus
         /\ req[r].dpay # "" => orders'[req[r].oid].paymentStatus = req[r].dpay
         /\ req[r].dstatus = "" => orders'[req[r].oid].status = orders[req[r].oid].status
         /\ req[r].dpay = "" =>
              orders'[req[r].oid].paymentStatus = orders[req[r].oid].paymentStatus]_vars

\* a cancelled, paid order has just been moved from shipped back to pending
MovedBackToPending ==
  /\ resp.status = 200 /\ resp.kind = "StatusUpdated"
  /\ orders[resp.oid].status = "pending" /\ orders[resp.oid].paymentStatus = "paid"
  /\ orders[resp.oid].cancelled
\* C14 - cancelled is one-way: an order whose cancelled flag is true in a
\* committed state is still there, with the flag true, after every step, the
\* save of an updateOrderStatus request that loaded the order before the
\* cancellation committed included
CancelledOneWay ==
  [][\A o \in 1..Len(orders) :
       orders[o].cancelled => o <= Len(orders') /\ orders'[o].cancelled]_vars

\* an updateOrderStatus request that loaded the order when it was not
\* cancelled is about to save it after the cancellation has committed
StaleUpdateAfterCancel ==
  \E r \in Req :
    /\ req[r].pc = "us_save" /\ ~req[r].ocancelled
    /\ orders[req[r].oid].cancelled
    /\ req[r].dstatus = "shipped"
\* status or paymentStatus of some order differs after the step
StatusWritten ==
  \E o \in 1..Len(orders) :
    \/ orders'[o].status # orders[o].status
    \/ orders'[o].paymentStatus # orders[o].paymentStatus

\* C15 - administrative operations require administrative privilege: a caller
\* without a valid token gets 401 on every order route, no request is taken up
\* for it and nothing changes; updateOrderStatus and the list of all orders
\* answer 403 to an authenticated caller who is not an admin, with nothing
\* changed, and are carried out for an admin only, so that status and
\* paymentStatus of an order change only in the save of an admin's request
AdminGate ==
  [][/\ resp'.user = Anonymous <=> resp'.status = 401
     /\ resp'.status = 401 => NoSideEffect /\ req' = req
     /\ \A r \in Req : req'[r].user # Anonymous
     /\ resp'.kind = "AdminOnly" =>
          /\ resp'.status = 403 /\ resp'.user \in Shoppers
          /\ NoSideEffect /\ req' = req
     /\ resp'.kind \in {"AllOrders", "StatusUpdated"} => resp'.user = "admin"
     /\ \A r \in Req : req'[r].pc = "us_save" => req'[r].user = "admin"
     /\ StatusWritten =>
          \E r \in Req : req[r].pc = "us_save" /\ req[r].user = "admin" /\ Acts(r)]_vars

\* shopper u1 has been answered 403 on an admin route while u2's order stays
\* pending and unpaid
ShopperTurnedAway ==
  /\ resp.status = 403 /\ resp.kind = "AdminOnly" /\ resp.user = "u1"
  /\ \E o \in 1..Len(orders) :
       /\ orders[o].user = "u2"
       /\ orders[o].status = "pending" /\ orders[o].paymentStatus = "unpaid"
\* the totals of order o follow from its lines
TotalsOf(o) ==
  /\ \A k \in 1..Len(o.items) : o.items[k].lineTotal = o.items[k].price * o.items[k].qty
  /\ o.subtotal = SumSeq([k \in 1..Len(o.items) |-> o.items[k].lineTotal])
  /\ o.shippingFee = 0 /\ o.tax = 0
  /\ o.grandTotal = o.subtotal + o.shippingFee + o.tax

\* C16 - order totals: the lines a checkout builds carry the price each
\* product has when the checkout reads it; the order it commits carries those
\* lines, each with lineTotal = price x quantity, subtotal = the sum of the
\* line totals, shippingFee = 0, tax = 0 and grandTotal = subtotal +
\* shippingFee + tax (prices are whole cents, counted in thousandths)
OrderTotals ==
  [][\A r \in Req :
       /\ req[r].pc = "co_populate" /\ req'[r].pc = "co_dec" =>
            /\ Len(req'[r].lines) = Len(req[r].cart)
            /\ \A k \in 1..Len(req[r].cart) :
                 /\ req'[r].lines[k].price = products[req[r].cart[k].product].price
                 /\ req'[r].lines[k].qty = req[r].cart[k].qty
       /\ req[r].pc \in CheckoutTxPcs /\ Acts(r) /\ resp'.status = 201 =>
            /\ orders'[Len(orders')].items = req[r].lines
            /\ TotalsOf(orders'[Len(orders')])]_vars

\* u1's order of two lines was priced at 2.50 for p1 and 10.00 for p2, and p1
\* has since gone back to 10.00
PricedAtReadTime ==
  \E o \in 1..Len(orders) :
    /\ Len(orders[o].items) = 2
    /\ orders[o].items[1].price = 10000 /\ orders[o].items[2].price = 2500
    /\ orders[o].subtotal = MaxQty * 10000 + 2500
    /\ orders[o].grandTotal = orders[o].subtotal
    /\ products["p1"].price = 10000
\* C17: a user never has more than one cart document, and every line of every
\* cart has a quantity of at least 1
OneCartPerUser ==
  \A u \in Users :
    /\ carts[u].dups = 0
    /\ \A k \in 1..Len(carts[u].items) : carts[u].items[k].qty >= 1

\* two first requests of one user raced to create the cart, and the second
\* insert was rejected
SecondCartRejected ==
  /\ resp.kind = "DuplicateKey"
  /\ carts[resp.user].exists
  /\ carts[resp.user].dups = 0
\* the place of a status in the lifecycle pending -> paid -> shipped -> delivered
StageOf(s) ==
  IF s = "pending" THEN 0 ELSE IF s = "paid" THEN 1 ELSE IF s = "shipped" THEN 2 ELSE 3

CartLinesSame == \A u \in Users : carts'[u].items = carts[u].items

\* the product is there and on sale
Sellable(p) == products[p].exists /\ products[p].isActive

\* request r is taken up by addItem or updateItem in this step
TakenUp(r, op) == req[r].pc = "idle" /\ req'[r].pc = "cart_find" /\ req'[r].op = op

\* request r, having got the cart with lines `items`, goes on to save the
\* quantity that results for its product's line, or is refused
Decided(r, items) ==
  LET rq == req[r]
      has == \E k \in 1..Len(items) : items[k].product = rq.prod
      line == CHOOSE k \in 1..Len(items) :
                /\ items[k].product = rq.prod
                /\ \A j \in 1..(k - 1) : items[j].product # rq.prod
      result == IF ~has \/ rq.op = "update" THEN rq.qty ELSE items[line].qty + rq.qty
  IN IF rq.op = "update" /\ ~has
     THEN resp'.status = 404 /\ resp'.kind = "ItemNotInCart" /\ req'[r].pc = "idle"
     ELSE IF result > rq.pstock
     THEN resp'.status = 400 /\ resp'.kind = "ExceedsStock" /\ req'[r].pc = "idle"
     ELSE /\ req'[r].pc = "cart_save" /\ req'[r].qty = result
          /\ req'[r].idx = (IF has THEN line ELSE 0)
          /\ req'[r].qty >= 1 /\ req'[r].qty <= req'[r].pstock
          /\ req'[r].pstock = rq.pstock /\ req'[r].prod = rq.prod

\* C19 - cart quantities are bounded by stock at mutation time: addItem and
\* updateItem answer 404 for a product that is unknown or not active, addItem
\* answers 400 when the stock it read is below 1 or below the quantity that
\* results for the line (stored quantity plus added quantity, or the added
\* quantity for a new line), updateItem answers 400 when the new quantity is
\* above the stock it read; a refused request leaves the lines of every cart as
\* they are; and the line written by a successful addItem or updateItem has a
\* quantity between 1 and the stock that request read
QtyBoundedByStock ==
  [][/\ resp'.kind \in {"ProductNotFound", "ItemNotInCart"} => resp'.status = 404
     /\ resp'.kind \in {"OutOfStock", "ExceedsStock"} => resp'.status = 400
     /\ resp'.status \in {400, 404} => CartLinesSame
     /\ \A r \in Req :
          /\ TakenUp(r, "add") \/ TakenUp(r, "update") =>
               /\ Sellable(req'[r].prod)
               /\ req'[r].pstock = products[req'[r].prod].stock
               /\ req'[r].qty >= 1
               /\ req'[r].pstock >= 1
               /\ req'[r].op = "update" => req'[r].qty <= req'[r].pstock
          /\ Acts(r) /\ req[r].op \in {"add", "update"} =>
               /\ req[r].pc = "cart_find" /\ carts[req[r].user].exists =>
                    Decided(r, carts[req[r].user].items)
               /\ req[r].pc = "cart_create" /\ resp'.kind # "DuplicateKey" =>
                    Decided(r, <<>>)
               /\ req[r].pc = "cart_save" /\ resp'.status \in {200, 201} =>
                    LET items == carts'[req[r].user].items
                        k == IF req[r].idx = 0 THEN Len(items) ELSE req[r].idx
                    IN /\ k \in 1..Len(items)
                       /\ items[k].product = req[r].prod
                       /\ items[k].qty = req[r].qty
                       /\ items[k].qty >= 1 /\ items[k].qty <= req[r].pstock
     /\ (\A r \in Req : req[r].pc = "idle") /\ resp'.status \in {400, 404} =>
          \E p \in ProductIds :
            IF resp'.status = 404 THEN ~Sellable(p) ELSE Sellable(p)]_vars

\* addItem has just been refused for a line that already holds all the stock
\* there is
AddRefusedAtStockLimit ==
  /\ resp.status = 400 /\ resp.kind = "ExceedsStock"
  /\ \E k \in 1..Len(carts[resp.user].items) :
       LET l == carts[resp.user].items[k] IN
       /\ products[l.product].stock >= 1
       /\ l.qty = products[l.product].stock
\* C20 - each order's stock is restored at most once: the commit of a
\* cancelMyOrder request for an order that a committed cancellation has
\* already marked cancelled, and so has already restored, raises no stock
RestoredAtMostOnce ==
  [][\A r \in Req :
       req[r].pc = "cn_commit" /\ Acts(r) /\ orders[req[r].oid].cancelled =>
         ~StockMoved]_vars
\* units of product p held by the orders that are not cancelled
Held(p) ==
  SumSeq([o \in 1..Len(orders) |->
            IF orders[o].cancelled THEN 0 ELSE QtyOf(orders[o].items, p)])

\* C21 - stock conservation: with no admin stock edits, in every committed
\* state the stock of each product plus the quantities of it in the orders
\* that are not cancelled is the stock the shop started with
StockConserved ==
  \A p \in OnSale : products[p].stock + Held(p) = MaxStock
\* the orders of user u
OrdersOf(u) == {o \in 1..Len(orders) : orders[o].user = u}

\* C22 - a cart is consumed by at most one checkout: while nothing is added to
\* the carts, every user has at most one order, however many createOrder
\* requests read the cart before it was cleared, and the commit of a checkout
\* replaces by the empty list the very cart that the request read
OneOrderPerCart ==
  [][/\ \A u \in Users : Cardinality(OrdersOf(u)') <= 1
     /\ \A r \in Req :
          req[r].pc = "co_commit" /\ Acts(r) /\ resp'.status = 201 =>
            /\ carts[req[r].user].items = req[r].cart
            /\ req[r].cart # <<>>
            /\ OrdersOf(req[r].user) = {}]_vars

\* a second checkout of the same cart found enough stock, placed its
\* decrements and its order in its transaction and failed on the cart's
\* version: the first checkout's order stands alone and the cart is empty
SecondCheckoutRefused ==
  /\ resp.status = 500 /\ resp.kind = "VersionError"
  /\ Cardinality(OrdersOf(resp.user)) = 1
  /\ carts[resp.user].items = <<>>
  /\ \A r \in Req : req[r].pc = "idle"
\* C23 - cancellation eligibility holds at commit time: the commit of a
\* cancelMyOrder request, which restores the stock and sets cancelled, happens
\* only for an order whose committed status is pending and whose committed
\* paymentStatus is unpaid at that moment
EligibleAtCommit ==
  [][\A r \in Req :
       req[r].pc = "cn_commit" /\ Acts(r) /\ resp'.status = 200 =>
         /\ orders[req[r].oid].status = "pending"
         /\ orders[req[r].oid].paymentStatus = "unpaid"]_vars
\* the lines of a cart or of an order as products and quantities
LinesOf(items) ==
  [k \in 1..Len(items) |-> [product |-> items[k].product, qty |-> items[k].qty]]

\* C24 - checkout clears only what it orders: when a checkout commits, the
\* cart that the commit replaces by the empty list holds, line by line, the
\* products and quantities of the order it creates
ClearsWhatItOrders ==
  [][\A r \in Req :
       req[r].pc = "co_commit" /\ Acts(r) /\ resp'.status = 201 =>
         /\ carts'[req[r].user].items = <<>>
         /\ LinesOf(carts[req[r].user].items) = LinesOf(orders'[Len(orders')].items)]_vars
\* C25 - cancellation touches nothing but stock and the cancel markers: the
\* step in which a cancelMyOrder request answers 200 leaves every cart, every
\* other order and every field of its own order except cancelled and
\* cancelledAt as they are stored, status and paymentStatus included, and
\* changes no product outside the order's lines and no product field but stock
CancelFrame ==
  [][\A r \in Req :
       req[r].pc \in CancelTxPcs /\ Acts(r) /\ resp'.status = 200 =>
         LET o == req[r].oid IN
         /\ carts' = carts
         /\ Len(orders') = Len(orders)
         /\ \A k \in 1..Len(orders) : k # o => orders'[k] = orders[k]
         /\ orders'[o].status = orders[o].status
         /\ orders'[o].paymentStatus = orders[o].paymentStatus
         /\ orders'[o] = [orders[o] EXCEPT !.cancelled = orders'[o].cancelled,
                                           !.cancelledAt = orders'[o].cancelledAt]
         /\ \A p \in ProductIds :
              /\ products'[p] = [products[p] EXCEPT !.stock = products'[p].stock]
              /\ QtyOf(orders[o].items, p) = 0 => products'[p] = products[p]]_vars

\* u1's order has just been cancelled: the stock is back, u1's cart is still
\* empty, and u2's order stands as it was placed
CancelledNotBackInCart ==
  /\ resp.status = 200 /\ resp.kind = "Cancelled"
  /\ orders[resp.oid].user = "u1" /\ orders[resp.oid].cancelled
  /\ orders[resp.oid].status = "pending" /\ orders[resp.oid].paymentStatus = "unpaid"
  /\ carts["u1"].items = <<>>
  /\ \E k \in 1..Len(orders) :
       orders[k].user = "u2" /\ ~orders[k].cancelled /\ orders[k].status = "shipped"
\* the category reached from c by following parent n times, "" past the top
RECURSIVE Climb(_, _)
Climb(c, n) ==
  IF n = 0 \/ c = "" THEN c ELSE Climb(categories[c].parent, n - 1)

\* C26 - the category hierarchy stays acyclic: no category is reached from
\* itself by following the parent relation one or more times
Acyclic ==
  \A c \in CategoryIds :
    categories[c].exists =>
      \A n \in 1..Cardinality(CategoryIds) : Climb(c, n) # c
====
